---- MODULE Spec2Model ----
(***************************************************************************)
(* A model of the generic, thread-safe priority FIFO of src/fifo.c.        *)
(*                                                                         *)
(* The buffer is a doubly linked ring of nodes through a sentinel, guarded *)
(* by one mutex and two condition variables.  Every thread runs one call   *)
(* of the library at a time (fifoPush, fifoPull, fifoFlush or              *)
(* fifoBufferClose); a call is a sequence of steps, one per group of       *)
(* statements that the mutex makes atomic for the other threads.           *)
(*                                                                         *)
(* Payloads are opaque pointers.  The model names a payload by the number  *)
(* of its arrival: the k-th node linked into the ring carries payload k,   *)
(* and malloc gives it the address k.                                      *)
(***************************************************************************)
EXTENDS Integers, Sequences, FiniteSets, TLC

\* ------------------------------------------------------------- bounds
NumThreads == 2
MaxCap == 3
MaxPushes == 3
MaxPrio == 1
NegLevels == 1
MaxUnderflow == 1
ExtraPushes == 1

\* ---------------------------------------------------------- constants
NULL == 0
NoThread == 0
EBUSY == 16
EINVAL == 22
EDEADLK == 35

\* the addresses malloc gives out, the sentinel's being the last
HeapSize == MaxPushes + ExtraPushes
NodeIds == 1..HeapSize
sentinel == HeapSize + 1
Nodes == NodeIds \cup {sentinel}
Priorities == (0 - NegLevels)..MaxPrio

VARIABLES
    next, prev, priority, data, allocated,   \* the heap of fifo_node_t
    max_buffer_size, buffer_occupancy,       \* fifo_buffer_t counters
    lock, cond_nonfull, cond_nonempty,       \* fifo_buffer_t mutex and conditions
    pc, op, arg_priority, blocking,          \* each thread's call and its place in it
    rec,                                     \* fifoPull's local
    recount_p, cnt,                          \* fifoUpdateOccupancy's locals p and cnt
    ret,                                     \* what fifoPush (a status) or fifoPull (a payload) returned
    out,                                     \* what fifoFlush returned: the array with its NULL
                                             \* terminator, << >> for a NULL pointer
    crashed, closed,                         \* the process was killed; the buffer was freed
    pushed,                                  \* history: the priority of the k-th node linked
    slot,                                    \* history: whether a pull or flush took a node out
                                             \* since the thread began to wait in fifoPush
    returned                                 \* history: how many times payload k was handed
                                             \* back by fifoPull, fifoFlush or fifoBufferClose

ring == <<next, prev, priority, data, allocated>>
sync == <<lock, cond_nonfull, cond_nonempty>>
call == <<op, arg_priority, blocking>>
vars == <<next, prev, priority, data, allocated, max_buffer_size, buffer_occupancy,
          lock, cond_nonfull, cond_nonempty, pc, op, arg_priority, blocking,
          rec, recount_p, cnt, ret, out, crashed, closed, pushed, slot, returned>>

\* the threads of the process
Threads == DOMAIN pc

\* the number of nodes linked so far
pushCount == Len(pushed)

\* ------------------------------------------------------ list helpers

\* the links of the heap, as the list functions read and write them
Links == [next |-> next, prev |-> prev]

\* addNodeAfter without curr_node->next->prev = new_node
addNodeAfter_NoBackLink(l, curr_node, new_node) ==
    [next |-> [l.next EXCEPT ![new_node] = l.next[curr_node], ![curr_node] = new_node],
     prev |-> [l.prev EXCEPT ![new_node] = curr_node]]

\* addNodeAfter: the links after new_node is linked in behind curr_node
addNodeAfter(l, curr_node, new_node) ==
    [next |-> [l.next EXCEPT ![new_node] = l.next[curr_node], ![curr_node] = new_node],
     prev |-> [l.prev EXCEPT ![new_node] = curr_node, ![l.next[curr_node]] = new_node]]

\* removeNode without its test for the sentinel
removeNode_NoSentinelTest(l, node) ==
    [next |-> [l.next EXCEPT ![l.prev[node]] = l.next[node], ![node] = NULL],
     prev |-> [l.prev EXCEPT ![l.next[node]] = l.prev[node], ![node] = NULL],
     node |-> node]

\* removeNode: the links after node is unlinked, and the pointer returned
removeNode(l, node) ==
    IF node = sentinel
    THEN [next |-> l.next, prev |-> l.prev, node |-> NULL]
    ELSE [next |-> [l.next EXCEPT ![l.prev[node]] = l.next[node], ![node] = NULL],
          prev |-> [l.prev EXCEPT ![l.next[node]] = l.prev[node], ![node] = NULL],
          node |-> node]

\* malloc in fifoNodeCreate: the address of the new node
fifoNodeCreate == pushCount + 1

\* ScanStops without its test for a negative priority
ScanStops_NoNegative(p, new_priority) ==
    priority[p] >= new_priority

\* ScanStops with a strict comparison: equal priorities are passed over
ScanStops_Strict(p, new_priority) ==
    priority[p] > new_priority \/ priority[p] < 0

\* ScanStops with the comparison turned round
ScanStops_Reversed(p, new_priority) ==
    priority[p] <= new_priority \/ priority[p] < 0

\* the test that ends the for loop of fifoPush at node p
ScanStops(p, new_priority) ==
    priority[p] >= new_priority \/ priority[p] < 0

\* the for loop of fifoPush, started at p: the node the new one goes in front of
RECURSIVE ScanFrom(_, _)
ScanFrom(p, new_priority) ==
    IF p = sentinel THEN p
    ELSE IF ScanStops(p, new_priority) THEN p
    ELSE ScanFrom(next[p], new_priority)

\* InsertAfter with a negative priority linked in at the head end of the negative nodes
InsertAfter_NegativeScanned(new_priority) ==
    prev[ScanFrom(next[sentinel], IF new_priority < 0 THEN MaxPrio + 1 ELSE new_priority)]

\* InsertAfter with a negative priority linked in at the head end of the ring
InsertAfter_NegativeAtHead(new_priority) ==
    IF new_priority < 0
    THEN sentinel
    ELSE prev[ScanFrom(next[sentinel], new_priority)]

\* the node fifoPush links the new node behind
InsertAfter(new_priority) ==
    IF new_priority < 0
    THEN prev[sentinel]
    ELSE prev[ScanFrom(next[sentinel], new_priority)]

\* the node fifoPull and fifoFlush take out next
PullEnd(l) == l.prev[sentinel]

\* the loop of fifoUpdateOccupancy from p: the number of nodes up to the sentinel
RECURSIVE CountFrom(_, _)
CountFrom(p, fuel) ==
    IF p = sentinel \/ p = NULL \/ fuel = 0 THEN 0
    ELSE 1 + CountFrom(next[p], fuel - 1)

fifoUpdateOccupancy == CountFrom(next[sentinel], HeapSize)

\* the loop of fifoPrint from p: the nodes from the head end to the pull end
RECURSIVE PrintFrom(_, _)
PrintFrom(p, fuel) ==
    IF p = sentinel \/ p = NULL \/ fuel = 0 THEN <<>>
    ELSE <<p>> \o PrintFrom(next[p], fuel - 1)

fifoPrint == PrintFrom(next[sentinel], HeapSize)

\* the while loop of fifoFlush from links l: the links it leaves, the payloads it
\* wrote to out[] in their order, and the nodes it freed
RECURSIVE FlushLoop(_, _, _)
FlushLoop(l, acc, freed) ==
    IF l.prev[sentinel] = sentinel
    THEN [next |-> l.next, prev |-> l.prev, out |-> acc, freed |-> freed]
    ELSE FlushLoop(removeNode(l, PullEnd(l)), Append(acc, data[PullEnd(l)]),
                   freed \cup {PullEnd(l)})

\* PushFull with a strict comparison
PushFull_Strict == buffer_occupancy > max_buffer_size

\* the test of fifoPush for a full buffer, of fifoPull for an empty one
PushFull == buffer_occupancy >= max_buffer_size
PullEmpty == buffer_occupancy <= 0

\* pthread_cond_signal on a set of waiters: the sets of threads it may wake
Signalled(waiters) ==
    IF waiters = {} THEN {{}} ELSE {{w} : w \in waiters}

\* the place a woken waiter continues from
WokenPc(p) ==
    IF p = "push_wait" THEN "push_woken" ELSE IF p = "pull_wait" THEN "pull_woken" ELSE p

\* --------------------------------------------------------------- Init

\* the buffer fifoBufferInit(capacity) returns: the sentinel linked to itself, the
\* counter at 0, the mutex free and nobody waiting
fifoBufferInit(capacity) ==
    /\ next = [n \in Nodes |-> IF n = sentinel THEN sentinel ELSE NULL]
    /\ prev = [n \in Nodes |-> IF n = sentinel THEN sentinel ELSE NULL]
    /\ priority = [n \in Nodes |-> 0]
    /\ data = [n \in Nodes |-> NULL]
    /\ allocated = {}
    /\ max_buffer_size = capacity
    /\ buffer_occupancy = 0
    /\ lock = NoThread
    /\ cond_nonfull = {}
    /\ cond_nonempty = {}
    /\ crashed = FALSE
    /\ closed = FALSE
    /\ pushed = <<>>
    /\ returned = [k \in NodeIds |-> 0]

\* the threads 1..n, none of them in a call
ThreadsCreated(n) ==
    /\ pc = [t \in 1..n |-> "idle"]
    /\ op = [t \in 1..n |-> "none"]
    /\ arg_priority = [t \in 1..n |-> 0]
    /\ blocking = [t \in 1..n |-> FALSE]
    /\ rec = [t \in 1..n |-> NULL]
    /\ recount_p = [t \in 1..n |-> NULL]
    /\ cnt = [t \in 1..n |-> 0]
    /\ ret = [t \in 1..n |-> 0]
    /\ out = [t \in 1..n |-> <<>>]
    /\ slot = [t \in 1..n |-> "none"]

\* a buffer of a capacity of 1 to MaxCap, and NumThreads threads to use it
Init ==
    /\ \E capacity \in 1..MaxCap : fifoBufferInit(capacity)
    /\ ThreadsCreated(NumThreads)

\* ------------------------------------------------------ call entries

\* the buffer exists and no thread is closing it
Running == ~crashed /\ ~closed /\ \A u \in Threads : op[u] # "close"

\* the calls of fifoPush that have not linked their node yet
PendingPushes == {u \in Threads : op[u] = "push" /\ pc[u] # "push_inc"}

\* thread t enters call o: fifoLockBuffer comes first
Enter(t, o, p, b) ==
    /\ pc' = [pc EXCEPT ![t] = "lock"]
    /\ op' = [op EXCEPT ![t] = o]
    /\ arg_priority' = [arg_priority EXCEPT ![t] = p]
    /\ blocking' = [blocking EXCEPT ![t] = b]
    /\ ret' = [ret EXCEPT ![t] = 0]
    /\ out' = [out EXCEPT ![t] = <<>>]
    /\ UNCHANGED <<ring, max_buffer_size, buffer_occupancy, sync, rec, recount_p, cnt, crashed, closed,
                   pushed, returned, slot>>

\* thread t leaves its call
Leave(t, wake) ==
    /\ pc' = [u \in Threads |-> IF u = t THEN "idle"
                                ELSE IF u \in wake THEN WokenPc(pc[u]) ELSE pc[u]]
    /\ op' = [op EXCEPT ![t] = "none"]
    /\ arg_priority' = [arg_priority EXCEPT ![t] = 0]
    /\ blocking' = [blocking EXCEPT ![t] = FALSE]

\* a thread calls fifoPush(buffer, data, priority, blocking)
CallPush(t) ==
    /\ Running /\ pc[t] = "idle"
    /\ pushCount + Cardinality(PendingPushes) < MaxPushes
    /\ \E p \in Priorities, b \in BOOLEAN : Enter(t, "push", p, b)

\* a thread calls fifoPull(buffer, blocking)
CallPull(t) ==
    /\ Running /\ pc[t] = "idle"
    /\ \E b \in BOOLEAN : Enter(t, "pull", 0, b)

\* a thread calls fifoFlush(buffer, blocking)
CallFlush(t) ==
    /\ Running /\ pc[t] = "idle"
    /\ \E b \in BOOLEAN : Enter(t, "flush", 0, b)

\* a thread calls fifoBufferClose(buffer), once every other thread is done with it
CallClose(t) ==
    /\ Running /\ pc[t] = "idle"
    /\ \A u \in Threads \ {t} : pc[u] = "idle"
    /\ Enter(t, "close", 0, TRUE)

\* ----------------------------------------------------- fifoLockBuffer

\* the place a call continues from with the mutex
AfterLock(o) ==
    IF o = "push" THEN "push_check" ELSE IF o = "pull" THEN "pull_check" ELSE "flush"

\* pthread_mutex_lock, or pthread_mutex_trylock on a free mutex
LockAcquire(t) ==
    /\ ~crashed /\ pc[t] = "lock" /\ lock = NoThread
    /\ lock' = t
    /\ pc' = [pc EXCEPT ![t] = AfterLock(op[t])]
    /\ UNCHANGED <<ring, max_buffer_size, buffer_occupancy, cond_nonfull, cond_nonempty,
                   call, rec, recount_p, cnt, ret, out, crashed, closed, pushed, returned, slot>>

\* pthread_mutex_trylock on a held mutex: fifoPush returns lock_status, fifoPull and
\* fifoFlush return NULL
TryLockBusy(t) ==
    /\ ~crashed /\ pc[t] = "lock" /\ ~blocking[t] /\ lock # NoThread
    /\ ret' = [ret EXCEPT ![t] = IF op[t] = "push" THEN EBUSY ELSE NULL]
    /\ Leave(t, {})
    /\ UNCHANGED <<ring, max_buffer_size, buffer_occupancy, sync, rec, recount_p, cnt, out,
                   crashed, closed, pushed, returned, slot>>

\* pthread_cond_wait: release the mutex and sleep on the condition
WaitOn(t, waitpc) ==
    /\ lock' = NoThread
    /\ pc' = [pc EXCEPT ![t] = waitpc]
    /\ UNCHANGED <<ring, max_buffer_size, buffer_occupancy, call, rec, recount_p, cnt, ret, out,
                   crashed, closed, pushed, returned>>

\* Reacquire without the mutex: the woken waiter goes on while another thread may
\* hold it
Reacquire_NoMutex(t) ==
    /\ ~crashed /\ pc[t] \in {"push_woken", "pull_woken"}
    /\ pc' = [pc EXCEPT ![t] = IF pc[t] = "push_woken" THEN "push_insert" ELSE "pull_remove"]
    /\ UNCHANGED <<ring, max_buffer_size, buffer_occupancy, sync,
                   call, rec, recount_p, cnt, ret, out, crashed, closed, pushed, returned, slot>>

\* a woken waiter gets the mutex back and pthread_cond_wait returns 0
Reacquire(t) ==
    /\ ~crashed /\ pc[t] \in {"push_woken", "pull_woken"} /\ lock = NoThread
    /\ lock' = t
    /\ pc' = [pc EXCEPT ![t] = IF pc[t] = "push_woken" THEN "push_insert" ELSE "pull_remove"]
    /\ UNCHANGED <<ring, max_buffer_size, buffer_occupancy, cond_nonfull, cond_nonempty,
                   call, rec, recount_p, cnt, ret, out, crashed, closed, pushed, returned, slot>>

\* pthread_cond_wait returns although no thread signalled the condition
SpuriousWakeup(t) ==
    /\ ~crashed /\ pc[t] \in {"push_wait", "pull_wait"}
    /\ cond_nonfull' = cond_nonfull \ {t}
    /\ cond_nonempty' = cond_nonempty \ {t}
    /\ pc' = [pc EXCEPT ![t] = WokenPc(pc[t])]
    /\ UNCHANGED <<ring, max_buffer_size, buffer_occupancy, lock, call, rec, recount_p, cnt, ret, out,
                   crashed, closed, pushed, returned, slot>>

\* ----------------------------------------------------------- fifoPush

\* the buffer has room: go on to insert
PushCheck(t) ==
    /\ ~crashed /\ pc[t] = "push_check" /\ ~PushFull
    /\ pc' = [pc EXCEPT ![t] = "push_insert"]
    /\ UNCHANGED <<ring, max_buffer_size, buffer_occupancy, sync, call, rec, recount_p, cnt, ret, out,
                   crashed, closed, pushed, returned, slot>>

\* the buffer is full and the call is blocking: wait for cond_nonfull, once
PushWait(t) ==
    /\ ~crashed /\ pc[t] = "push_check" /\ PushFull /\ blocking[t]
    /\ cond_nonfull' = cond_nonfull \cup {t}
    /\ UNCHANGED cond_nonempty
    /\ slot' = [slot EXCEPT ![t] = "waiting"]
    /\ WaitOn(t, "push_wait")

\* the buffer is full and the call is not blocking: unlock and return -1
PushWouldBlock(t) ==
    /\ ~crashed /\ pc[t] = "push_check" /\ PushFull /\ ~blocking[t]
    /\ lock' = NoThread
    /\ ret' = [ret EXCEPT ![t] = -1]
    /\ Leave(t, {})
    /\ UNCHANGED <<ring, max_buffer_size, buffer_occupancy, cond_nonfull, cond_nonempty,
                   rec, recount_p, cnt, out, crashed, closed, pushed, returned, slot>>

\* fifoNodeCreate and addNodeAfter at the place the priority gives
PushInsert(t) ==
    /\ ~crashed /\ pc[t] = "push_insert" /\ pushCount < HeapSize
    /\ LET new_node == fifoNodeCreate
           l == addNodeAfter(Links, InsertAfter(arg_priority[t]), new_node)
       IN  /\ next' = l.next
           /\ prev' = l.prev
           /\ priority' = [priority EXCEPT ![new_node] = arg_priority[t]]
           /\ data' = [data EXCEPT ![new_node] = pushCount + 1]
           /\ allocated' = allocated \cup {new_node}
    /\ pushed' = Append(pushed, arg_priority[t])
    /\ pc' = [pc EXCEPT ![t] = "push_inc"]
    /\ UNCHANGED <<max_buffer_size, buffer_occupancy, sync, call, rec, recount_p, cnt, ret, out,
                   crashed, closed, slot, returned>>

\* buffer_occupancy++, signal cond_nonempty, unlock, return lock_status (0)
PushInc(t) ==
    /\ ~crashed /\ pc[t] = "push_inc"
    /\ buffer_occupancy' = buffer_occupancy + 1
    /\ \E W \in Signalled(cond_nonempty) :
          /\ cond_nonempty' = cond_nonempty \ W
          /\ Leave(t, W)
    /\ lock' = NoThread
    /\ ret' = [ret EXCEPT ![t] = 0]
    /\ UNCHANGED <<ring, max_buffer_size, cond_nonfull, rec, recount_p, cnt, out,
                   crashed, closed, pushed, returned>>
    /\ slot' = [slot EXCEPT ![t] = "none"]

\* ----------------------------------------------------------- fifoPull

\* the history once a node is taken out: every waiting fifoPush has seen a slot freed
SlotFreed == [u \in Threads |-> IF slot[u] = "waiting" THEN "freed" ELSE slot[u]]

\* the buffer holds an item: go on to remove
PullCheck(t) ==
    /\ ~crashed /\ pc[t] = "pull_check" /\ ~PullEmpty
    /\ pc' = [pc EXCEPT ![t] = "pull_remove"]
    /\ UNCHANGED <<ring, max_buffer_size, buffer_occupancy, sync, call, rec, recount_p, cnt, ret, out,
                   crashed, closed, pushed, returned, slot>>

\* the buffer is empty and the call is blocking: wait for cond_nonempty, once
PullWait(t) ==
    /\ ~crashed /\ pc[t] = "pull_check" /\ PullEmpty /\ blocking[t]
    /\ cond_nonempty' = cond_nonempty \cup {t}
    /\ UNCHANGED <<cond_nonfull, slot>>
    /\ WaitOn(t, "pull_wait")

\* the buffer is empty and the call is not blocking: unlock and return NULL
PullWouldBlock(t) ==
    /\ ~crashed /\ pc[t] = "pull_check" /\ PullEmpty /\ ~blocking[t]
    /\ lock' = NoThread
    /\ ret' = [ret EXCEPT ![t] = NULL]
    /\ Leave(t, {})
    /\ UNCHANGED <<ring, max_buffer_size, buffer_occupancy, cond_nonfull, cond_nonempty,
                   rec, recount_p, cnt, out, crashed, closed, pushed, returned, slot>>

\* rec = removeNode(buffer, buffer->sentinel->prev)
PullRemove(t) ==
    /\ ~crashed /\ pc[t] = "pull_remove"
    /\ LET r == removeNode(Links, PullEnd(Links))
       IN  /\ next' = r.next
           /\ prev' = r.prev
           /\ rec' = [rec EXCEPT ![t] = r.node]
    /\ pc' = [pc EXCEPT ![t] = "pull_dec"]
    /\ UNCHANGED <<priority, data, allocated, max_buffer_size, buffer_occupancy, sync,
                   call, recount_p, cnt, ret, out, crashed, closed, pushed, returned>>
    /\ slot' = IF PullEnd(Links) = sentinel THEN slot ELSE SlotFreed

\* buffer_occupancy--, signal cond_nonfull, unlock
PullDec(t) ==
    /\ ~crashed /\ pc[t] = "pull_dec"
    /\ buffer_occupancy' = buffer_occupancy - 1
    /\ \E W \in Signalled(cond_nonfull) :
          /\ cond_nonfull' = cond_nonfull \ W
          /\ pc' = [u \in Threads |-> IF u = t THEN "pull_destroy"
                                      ELSE IF u \in W THEN WokenPc(pc[u]) ELSE pc[u]]
    /\ lock' = NoThread
    /\ UNCHANGED <<ring, max_buffer_size, cond_nonempty, call, rec, recount_p, cnt, ret, out,
                   crashed, closed, pushed, returned, slot>>

\* the history once the payloads of the sequence a are handed to the caller
Handed(a) ==
    [k \in NodeIds |-> returned[k] + Cardinality({i \in 1..Len(a) : a[i] = k})]

\* fifoNodeDestroy: the heap after the nodes of freed are freed
FreeNodes(freed) ==
    /\ priority' = [n \in Nodes |-> IF n \in freed THEN 0 ELSE priority[n]]
    /\ data' = [n \in Nodes |-> IF n \in freed THEN NULL ELSE data[n]]
    /\ allocated' = allocated \ freed

\* return fifoNodeDestroy(rec), rec being a node
PullDestroy(t) ==
    /\ ~crashed /\ pc[t] = "pull_destroy" /\ rec[t] # NULL
    /\ ret' = [ret EXCEPT ![t] = data[rec[t]]]
    /\ FreeNodes({rec[t]})
    /\ rec' = [rec EXCEPT ![t] = NULL]
    /\ returned' = Handed(<<data[rec[t]]>>)
    /\ Leave(t, {})
    /\ UNCHANGED <<next, prev, max_buffer_size, buffer_occupancy, sync, out,
                   recount_p, cnt, crashed, closed, pushed, slot>>

\* fifoNodeDestroy(NULL) reads NULL->data: the process is killed
PullNullCrash(t) ==
    /\ ~crashed /\ pc[t] = "pull_destroy" /\ rec[t] = NULL
    /\ crashed' = TRUE
    /\ UNCHANGED <<ring, max_buffer_size, buffer_occupancy, sync, pc, call, rec, recount_p, cnt, ret, out,
                   closed, pushed, returned, slot>>

\* fifoNodeDestroy(NULL) reads NULL->data: the read goes through and NULL comes back
\* (followed while the counter is at most MaxUnderflow below 0)
PullNullGarbage(t) ==
    /\ ~crashed /\ pc[t] = "pull_destroy" /\ rec[t] = NULL
    /\ buffer_occupancy >= 0 - MaxUnderflow
    /\ ret' = [ret EXCEPT ![t] = NULL]
    /\ Leave(t, {})
    /\ UNCHANGED <<ring, max_buffer_size, buffer_occupancy, sync, rec, recount_p, cnt, out,
                   crashed, closed, pushed, returned, slot>>

\* ---------------------------------------------------------- fifoFlush

\* the number of entries of the array calloc(buffer_occupancy + 1, ...) returns
OutSize == buffer_occupancy + 1

\* the number of entries fifoFlush writes: one per node and the NULL terminator
OutWritten == Len(FlushLoop(Links, <<>>, {}).out) + 1

\* the body of fifoFlush under the mutex: calloc, the while loop, the terminator,
\* the sentinel linked to itself, occupancy 0, signal cond_nonfull, unlock, return
\* out.  A write past the end of an array calloc did return goes through.
FlushDrain(t) ==
    /\ ~crashed /\ pc[t] = "flush"
    /\ OutWritten <= OutSize \/ OutSize >= 0
    /\ LET f == FlushLoop(Links, <<>>, {})
       IN  /\ next' = [f.next EXCEPT ![sentinel] = sentinel]
           /\ prev' = [f.prev EXCEPT ![sentinel] = sentinel]
           /\ out' = [out EXCEPT ![t] = Append(f.out, NULL)]
           /\ returned' = Handed(f.out)
           /\ FreeNodes(f.freed)
    /\ buffer_occupancy' = 0
    /\ \E W \in Signalled(cond_nonfull) :
          /\ cond_nonfull' = cond_nonfull \ W
          /\ IF op[t] = "close"
             THEN /\ pc' = [u \in Threads |-> IF u = t THEN "close_destroy"
                                             ELSE IF u \in W THEN WokenPc(pc[u]) ELSE pc[u]]
                  /\ UNCHANGED call
             ELSE Leave(t, W)
    /\ lock' = NoThread
    /\ UNCHANGED <<max_buffer_size, cond_nonempty, rec, recount_p, cnt, ret, crashed, closed, pushed>>
    /\ slot' = IF PullEnd(Links) = sentinel THEN slot ELSE SlotFreed

\* out[i] is written outside the array (or calloc returned NULL): the process is killed
FlushWriteCrash(t) ==
    /\ ~crashed /\ pc[t] = "flush" /\ OutWritten > OutSize
    /\ crashed' = TRUE
    /\ UNCHANGED <<ring, max_buffer_size, buffer_occupancy, sync, pc, call, rec, recount_p, cnt, ret, out,
                   closed, pushed, returned, slot>>

\* ---------------------------------------------------- fifoBufferClose

\* the mutex and the conditions are destroyed and the buffer is freed
CloseDestroy(t) ==
    /\ ~crashed /\ pc[t] = "close_destroy"
    /\ closed' = TRUE
    /\ Leave(t, {})
    /\ UNCHANGED <<ring, max_buffer_size, buffer_occupancy, sync, rec, recount_p, cnt, ret, out,
                   crashed, pushed, returned, slot>>

\* ------------------------------------------------------ specification

\* the steps of the calls, every wake-up being one a pthread_cond_signal made
NextSignalled ==
    \E t \in Threads :
        \/ CallPush(t) \/ CallPull(t) \/ CallFlush(t) \/ CallClose(t)
        \/ LockAcquire(t) \/ TryLockBusy(t) \/ Reacquire(t)
        \/ PushCheck(t) \/ PushWait(t) \/ PushWouldBlock(t) \/ PushInsert(t) \/ PushInc(t)
        \/ PullCheck(t) \/ PullWait(t) \/ PullWouldBlock(t) \/ PullRemove(t) \/ PullDec(t)
        \/ PullDestroy(t) \/ PullNullCrash(t) \/ PullNullGarbage(t)
        \/ FlushDrain(t) \/ FlushWriteCrash(t)
        \/ CloseDestroy(t)

\* the same with the spurious wake-ups pthread_cond_wait is allowed
Next == NextSignalled \/ \E t \in Threads : SpuriousWakeup(t)

Spec == Init /\ [][Next]_vars

SpecSignalled == Init /\ [][NextSignalled]_vars

\* ------------------------------------------------ fifoUpdateOccupancy

\* a thread calls fifoUpdateOccupancy(buffer): no mutex is taken, cnt = 0 and p is
\* read from buffer->sentinel->next
CallRecount(t) ==
    /\ Running /\ pc[t] = "idle"
    /\ pc' = [pc EXCEPT ![t] = "recount"]
    /\ op' = [op EXCEPT ![t] = "recount"]
    /\ recount_p' = [recount_p EXCEPT ![t] = next[sentinel]]
    /\ cnt' = [cnt EXCEPT ![t] = 0]
    /\ ret' = [ret EXCEPT ![t] = 0]
    /\ out' = [out EXCEPT ![t] = <<>>]
    /\ UNCHANGED <<ring, max_buffer_size, buffer_occupancy, sync, arg_priority, blocking,
                   rec, crashed, closed, pushed, returned, slot>>

\* one turn of the for loop: cnt++ and p = p->next, read as the heap holds it now
RecountStep(t) ==
    /\ ~crashed /\ pc[t] = "recount" /\ recount_p[t] \in NodeIds
    /\ recount_p' = [recount_p EXCEPT ![t] = next[recount_p[t]]]
    /\ cnt' = [cnt EXCEPT ![t] = cnt[t] + 1]
    /\ UNCHANGED <<ring, max_buffer_size, buffer_occupancy, sync, pc, call,
                   rec, ret, out, crashed, closed, pushed, returned, slot>>

\* p is NULL, or a node freed in the meantime: reading p->next kills the process
RecountCrash(t) ==
    /\ ~crashed /\ pc[t] = "recount"
    /\ recount_p[t] = NULL \/ (recount_p[t] \in NodeIds /\ recount_p[t] \notin allocated)
    /\ crashed' = TRUE
    /\ UNCHANGED <<ring, max_buffer_size, buffer_occupancy, sync, pc, call,
                   rec, recount_p, cnt, ret, out, closed, pushed, returned, slot>>

\* the loop has come round to the sentinel: buffer->buffer_occupancy = cnt; return cnt
RecountStore(t) ==
    /\ ~crashed /\ pc[t] = "recount" /\ recount_p[t] = sentinel
    /\ buffer_occupancy' = cnt[t]
    /\ ret' = [ret EXCEPT ![t] = cnt[t]]
    /\ recount_p' = [recount_p EXCEPT ![t] = NULL]
    /\ cnt' = [cnt EXCEPT ![t] = 0]
    /\ Leave(t, {})
    /\ UNCHANGED <<ring, max_buffer_size, sync, rec, out, crashed, closed,
                   pushed, returned, slot>>

\* non-blocking calls of fifoPush, fifoPull and fifoFlush
PushNow(t) ==
    /\ Running /\ pc[t] = "idle"
    /\ pushCount + Cardinality(PendingPushes) < MaxPushes
    /\ \E new_priority \in Priorities : Enter(t, "push", new_priority, FALSE)

PullNow(t) ==
    /\ Running /\ pc[t] = "idle"
    /\ Enter(t, "pull", 0, FALSE)

FlushNow(t) ==
    /\ Running /\ pc[t] = "idle"
    /\ Enter(t, "flush", 0, FALSE)

\* the non-blocking calls, which never wait on a condition, and fifoUpdateOccupancy
\* beside them
NextRecount ==
    \E t \in Threads :
        \/ PushNow(t) \/ PullNow(t) \/ FlushNow(t)
        \/ LockAcquire(t) \/ TryLockBusy(t)
        \/ PushCheck(t) \/ PushWouldBlock(t) \/ PushInsert(t) \/ PushInc(t)
        \/ PullCheck(t) \/ PullWouldBlock(t) \/ PullRemove(t) \/ PullDec(t) \/ PullDestroy(t)
        \/ FlushDrain(t)
        \/ CallRecount(t) \/ RecountStep(t) \/ RecountCrash(t) \/ RecountStore(t)

SpecRecount == Init /\ [][NextRecount]_vars

\* ------------------------------------------ producers and a flush

\* one thread more than in Init, to have two producers wait while a third flushes
InitProducers ==
    /\ \E capacity \in 1..MaxCap : fifoBufferInit(capacity)
    /\ ThreadsCreated(NumThreads + 1)

\* a thread calls fifoPush(buffer, data, 0, true)
ProducerCall(t) ==
    /\ Running /\ pc[t] = "idle"
    /\ pushCount + Cardinality(PendingPushes) < HeapSize
    /\ Enter(t, "push", 0, TRUE)

\* a thread calls fifoFlush(buffer, true)
FlusherCall(t) ==
    /\ Running /\ pc[t] = "idle"
    /\ Enter(t, "flush", 0, TRUE)

\* a step of thread t inside a blocking fifoPush or fifoFlush
ProducersStep(t) ==
    \/ LockAcquire(t) \/ Reacquire(t)
    \/ PushCheck(t) \/ PushWait(t) \/ PushInsert(t) \/ PushInc(t)
    \/ FlushDrain(t)

NextProducers ==
    \E t \in Threads : ProducerCall(t) \/ FlusherCall(t) \/ ProducersStep(t)

\* the scheduler is fair to every thread inside a call; no call is owed
SpecProducers ==
    /\ InitProducers /\ [][NextProducers]_vars
    /\ \A t \in 1..(NumThreads + 1) : WF_vars(ProducersStep(t))

\* ------------------------------------------- a condition wait that fails

\* pthread_cond_wait returns a non-zero status, the mutex still with the caller:
\* fifoPush returns cond_status without unlocking
PushWaitFails(t) ==
    /\ ~crashed /\ pc[t] = "push_check" /\ PushFull /\ blocking[t]
    /\ ret' = [ret EXCEPT ![t] = EINVAL]
    /\ Leave(t, {})
    /\ UNCHANGED <<ring, max_buffer_size, buffer_occupancy, sync, rec, recount_p, cnt, out,
                   crashed, closed, pushed, returned, slot>>

\* the same in fifoPull, which returns NULL without unlocking
PullWaitFails(t) ==
    /\ ~crashed /\ pc[t] = "pull_check" /\ PullEmpty /\ blocking[t]
    /\ ret' = [ret EXCEPT ![t] = NULL]
    /\ Leave(t, {})
    /\ UNCHANGED <<ring, max_buffer_size, buffer_occupancy, sync, rec, recount_p, cnt, out,
                   crashed, closed, pushed, returned, slot>>

\* pthread_mutex_lock on the error-checking mutex the caller already holds returns
\* EDEADLK: fifoPush returns it, fifoPull and fifoFlush return NULL, and
\* fifoBufferClose goes on to destroy the buffer
LockDeadlk(t) ==
    /\ ~crashed /\ pc[t] = "lock" /\ blocking[t] /\ lock = t
    /\ ret' = [ret EXCEPT ![t] = IF op[t] = "push" THEN EDEADLK ELSE NULL]
    /\ IF op[t] = "close"
       THEN pc' = [pc EXCEPT ![t] = "close_destroy"] /\ UNCHANGED call
       ELSE Leave(t, {})
    /\ UNCHANGED <<ring, max_buffer_size, buffer_occupancy, sync, rec, recount_p, cnt, out,
                   crashed, closed, pushed, returned, slot>>

NextWaitFailure ==
    \/ NextSignalled
    \/ \E t \in Threads : PushWaitFails(t) \/ PullWaitFails(t) \/ LockDeadlk(t)

SpecWaitFailure == Init /\ [][NextWaitFailure]_vars

\* ------------------------------------------------- any capacity

\* fifoBufferInit stores the capacity it is given, whatever its sign
InitAnyCapacity ==
    /\ \E capacity \in (0 - MaxCap)..MaxCap : fifoBufferInit(capacity)
    /\ ThreadsCreated(NumThreads)

SpecAnyCapacity == InitAnyCapacity /\ [][NextSignalled]_vars

\* ------------------------------------------ calls after the close

\* fifoBufferClose destroyed the mutex and the conditions and freed the buffer; a
\* call made on the handle afterwards reads that memory.  The process is killed,
AfterCloseCrash(t) ==
    /\ closed /\ ~crashed /\ pc[t] = "idle"
    /\ crashed' = TRUE
    /\ UNCHANGED <<ring, max_buffer_size, buffer_occupancy, sync, pc, call, rec, recount_p, cnt, ret, out,
                   closed, pushed, returned, slot>>

\* or fifoLockBuffer fails on the destroyed mutex, so that fifoPush returns its
\* status and fifoPull and fifoFlush return NULL,
AfterCloseLockFails(t) ==
    /\ closed /\ ~crashed /\ pc[t] = "idle"
    /\ \E o \in {"push", "pull", "flush"} :
          ret' = [ret EXCEPT ![t] = IF o = "push" THEN EINVAL ELSE NULL]
    /\ out' = [out EXCEPT ![t] = <<>>]
    /\ UNCHANGED <<ring, max_buffer_size, buffer_occupancy, sync, pc, call, rec, recount_p, cnt,
                   crashed, closed, pushed, returned, slot>>

\* or the memory still holds what the buffer held and the call runs as on a live one
AfterCloseProceeds(t) ==
    /\ closed /\ ~crashed /\ \A u \in Threads : pc[u] = "idle"
    /\ \E o \in {"push", "pull", "flush", "close"}, p \in Priorities, b \in BOOLEAN :
          /\ o = "push" => pushCount < MaxPushes
          /\ o # "push" => p = 0
          /\ o = "close" => b
          /\ Enter(t, o, p, b)

NextAfterClose ==
    \/ NextSignalled
    \/ \E t \in Threads : AfterCloseCrash(t) \/ AfterCloseLockFails(t) \/ AfterCloseProceeds(t)

SpecAfterClose == Init /\ [][NextAfterClose]_vars

\* ------------------------------------- one producer and one consumer

\* main pushes and closes, the thread it created pulls
Producer == 1
Consumer == 2

\* the payload of the shutdown marker: the last one pushed
Marker == MaxPushes

\* main pushes its next item, blocking; the last one is the marker, of priority 0
ProducerPush ==
    /\ Running /\ pc[Producer] = "idle" /\ pushCount < MaxPushes
    /\ \E p \in Priorities :
          /\ pushCount + 1 = Marker => p = 0
          /\ Enter(Producer, "push", p, TRUE)

\* the consumer pulls again, blocking, as long as it has not received the marker
ConsumerPull ==
    /\ Running /\ pc[Consumer] = "idle" /\ ret[Consumer] # Marker
    /\ Enter(Consumer, "pull", 0, TRUE)

\* main has joined the consumer, which left its loop, and closes the buffer
ProducerClose ==
    /\ Running /\ pc[Producer] = "idle" /\ pc[Consumer] = "idle"
    /\ pushCount = MaxPushes /\ ret[Consumer] = Marker
    /\ Enter(Producer, "close", 0, TRUE)

\* a step of thread t inside a blocking fifoPush, fifoPull or fifoBufferClose
PipelineStep(t) ==
    \/ LockAcquire(t) \/ Reacquire(t)
    \/ PushCheck(t) \/ PushWait(t) \/ PushInsert(t) \/ PushInc(t)
    \/ PullCheck(t) \/ PullWait(t) \/ PullRemove(t) \/ PullDec(t)
    \/ PullDestroy(t) \/ PullNullCrash(t) \/ PullNullGarbage(t)
    \/ FlushDrain(t) \/ FlushWriteCrash(t) \/ CloseDestroy(t)

NextPipeline ==
    \/ ProducerPush \/ ConsumerPull \/ ProducerClose
    \/ \E t \in Threads : PipelineStep(t) \/ SpuriousWakeup(t)

\* the scheduler is fair to both threads: a call that can be made is made, a step
\* that can be taken is taken; no wake-up without a signal is ever owed
SpecPipeline ==
    /\ Init /\ [][NextPipeline]_vars
    /\ WF_vars(ProducerPush) /\ WF_vars(ConsumerPull) /\ WF_vars(ProducerClose)
    /\ \A t \in 1..NumThreads : WF_vars(PipelineStep(t))

\* ------------------------------------------------------------ claims

\* the nodes linked in the ring
InRing == {fifoPrint[i] : i \in 1..Len(fifoPrint)}

\* the payloads of a returned array, without its NULL terminator
Payloads(a) == IF a = <<>> THEN <<>> ELSE SubSeq(a, 1, Len(a) - 1)

\* C1: occupancy never exceeds the capacity, and a producer inserts only when
\* occupancy is below the capacity at the moment it inserts.
C1_OccupancyAtMostCapacity ==
    /\ buffer_occupancy <= max_buffer_size
    /\ \A t \in Threads : pc[t] = "push_insert" => buffer_occupancy < max_buffer_size

\* C2: occupancy never drops below 0, and a consumer removes a node only when
\* occupancy is above 0 at the moment it removes.
C2_OccupancyAtLeastZero ==
    /\ buffer_occupancy >= 0
    /\ \A t \in Threads : pc[t] = "pull_remove" => buffer_occupancy > 0

\* C3: whenever no thread holds the lock, the number of nodes linked in the ring
\* (the count of fifoUpdateOccupancy) equals buffer_occupancy.
C3_CountEqualsOccupancy ==
    lock = NoThread => fifoUpdateOccupancy = buffer_occupancy

\* C4: from the head end to the pull end the ring holds the non-negative priorities
\* in non-decreasing order, followed by all the negative priorities.
C4_RingOrdered ==
    LET s == fifoPrint
    IN  \A i, j \in 1..Len(s) :
            i < j => /\ priority[s[i]] < 0 => priority[s[j]] < 0
                     /\ (priority[s[i]] >= 0 /\ priority[s[j]] >= 0)
                            => priority[s[i]] <= priority[s[j]]

\* a full ring of three nodes, of priorities 0, 1 and a negative one from the head
\* end, the 0 pushed after the 1, with the counter at the capacity
C4_Witness ==
    /\ ~crashed /\ lock = NoThread
    /\ Len(fifoPrint) = 3 /\ buffer_occupancy = 3 /\ max_buffer_size = 3
    /\ priority[fifoPrint[1]] = 0 /\ priority[fifoPrint[2]] = 1
    /\ priority[fifoPrint[3]] < 0
    /\ data[fifoPrint[1]] > data[fifoPrint[2]]

\* the node a fifoPull of thread t has just unlinked, the ring being as it left it
JustPulled(t) == pc[t] = "pull_dec" /\ rec[t] # NULL

\* C5 (as claimed): negative-priority items that are in the buffer together come out
\* in arrival order, from pull (no earlier negative arrival stays behind) and in the
\* array of flush.
C5_NegativesInArrivalOrder ==
    /\ \A t \in Threads :
          (JustPulled(t) /\ priority[rec[t]] < 0)
              => \A m \in InRing : priority[m] < 0 => data[m] > data[rec[t]]
    /\ \A t \in Threads :
          LET a == Payloads(out[t])
          IN  \A i, j \in 1..Len(a) :
                  (i < j /\ pushed[a[i]] < 0 /\ pushed[a[j]] < 0) => a[i] < a[j]

\* C5 (amended): negative-priority items that are in the buffer together come out in
\* reverse arrival order: the latest pushed is the first returned, by pull and in the
\* array of flush.
C5_NegativesInReverseArrivalOrder ==
    /\ \A t \in Threads :
          (JustPulled(t) /\ priority[rec[t]] < 0)
              => \A m \in InRing : priority[m] < 0 => data[m] < data[rec[t]]
    /\ \A t \in Threads :
          LET a == Payloads(out[t])
          IN  \A i, j \in 1..Len(a) :
                  (i < j /\ pushed[a[i]] < 0 /\ pushed[a[j]] < 0) => a[i] > a[j]

\* a pull has taken a negative-priority node out while another one stays in the ring
C5_Witness ==
    \E t \in Threads :
        /\ JustPulled(t) /\ priority[rec[t]] < 0 /\ ~crashed
        /\ buffer_occupancy <= max_buffer_size
        /\ \E m \in InRing : priority[m] < 0

\* C6 (as claimed): the array of a flush lists every negative-priority payload before
\* every non-negative one, and the non-negative ones in non-decreasing priority.
C6_FlushNonDecreasing ==
    \A t \in Threads :
        LET a == Payloads(out[t])
        IN  \A i, j \in 1..Len(a) :
                i < j => /\ pushed[a[j]] < 0 => pushed[a[i]] < 0
                         /\ (pushed[a[i]] >= 0 /\ pushed[a[j]] >= 0)
                                => pushed[a[i]] <= pushed[a[j]]

\* C6 (amended): the array of a flush lists every negative-priority payload before
\* every non-negative one, and the non-negative ones in non-increasing priority.
C6_FlushNonIncreasing ==
    \A t \in Threads :
        LET a == Payloads(out[t])
        IN  \A i, j \in 1..Len(a) :
                i < j => /\ pushed[a[j]] < 0 => pushed[a[i]] < 0
                         /\ (pushed[a[i]] >= 0 /\ pushed[a[j]] >= 0)
                                => pushed[a[i]] >= pushed[a[j]]

\* a flush has returned three payloads pushed within the capacity, of a negative
\* priority and of the priorities 0 and 1
C6_Witness ==
    \E t \in Threads :
        /\ Len(Payloads(out[t])) = 3 /\ max_buffer_size = 3 /\ ~crashed
        /\ \E i, j, k \in 1..3 :
              /\ pushed[out[t][i]] < 0
              /\ pushed[out[t][j]] = 0
              /\ pushed[out[t][k]] = 1

\* C7: two items of the same non-negative priority come out in the order they were
\* pushed, from pull (no earlier arrival of that priority stays behind) and in the
\* array of flush; with every push of priority 0 the buffer is a FIFO.
C7_TiesInArrivalOrder ==
    /\ \A t \in Threads :
          (JustPulled(t) /\ priority[rec[t]] >= 0)
              => \A m \in InRing : priority[m] = priority[rec[t]] => data[m] > data[rec[t]]
    /\ \A t \in Threads :
          LET a == Payloads(out[t])
          IN  \A i, j \in 1..Len(a) :
                  (i < j /\ pushed[a[i]] >= 0 /\ pushed[a[i]] = pushed[a[j]]) => a[i] < a[j]

\* a pull has taken a node of a non-negative priority out while a node of the same
\* priority, pushed after it, stays in the ring
C7_Witness ==
    \E t \in Threads :
        /\ JustPulled(t) /\ priority[rec[t]] >= 0 /\ ~crashed
        /\ buffer_occupancy <= max_buffer_size
        /\ \E m \in InRing : priority[m] = priority[rec[t]]

RECURSIVE PullsFrom(_, _, _)
PullsFrom(l, occupancy, acc) ==
    IF occupancy <= 0 \/ PullEnd(l) = sentinel THEN acc
    ELSE PullsFrom(removeNode(l, PullEnd(l)), occupancy - 1, Append(acc, data[PullEnd(l)]))

\* C9: a flush (and a close, which drains through it) returns the payloads that pulls
\* from the same state would return, in their order, as many as the occupancy, and
\* leaves occupancy 0 and the sentinel linked to itself.
C9_FlushEqualsPulls ==
    [][\A t \in Threads :
        (pc[t] = "flush" /\ pc'[t] # "flush")
            => /\ Payloads(out'[t]) = PullsFrom(Links, buffer_occupancy, <<>>)
               /\ Len(Payloads(out'[t])) = buffer_occupancy
               /\ buffer_occupancy' = 0
               /\ next'[sentinel] = sentinel /\ prev'[sentinel] = sentinel
      ]_vars

\* C10: a blocking push that waited on a full buffer does not insert its item while
\* no pull or flush has taken a node out since it began to wait.
C10_BlockedPushWaitsForSlot ==
    \A t \in Threads : pc[t] \in {"push_insert", "push_inc"} => slot[t] # "waiting"

\* C11: with one producer pushing blocking and ending with a marker of priority 0,
\* and one consumer pulling blocking until it gets the marker, under a fair scheduler
\* every call returns, the consumer gets the marker after every other item, each
\* handed out once, and the close that follows returns an empty array.
C11_PipelineCompletes ==
    <>(/\ closed /\ ~crashed
       /\ ret[Consumer] = Marker
       /\ \A k \in 1..MaxPushes : returned[k] = 1
       /\ out[Producer] = <<NULL>>)

\* C12: an item pushed with a negative priority is the next one a pull takes: as long
\* as it is the latest node linked and still in the ring it sits at the pull end,
\* whatever else the ring holds, and once a pull has taken a node out it is no
\* longer in the ring.
C12_NegativeIsNext ==
    (pushCount >= 1 /\ pushed[pushCount] < 0)
        => /\ pushCount \in InRing => PullEnd(Links) = pushCount
           /\ \A t \in Threads : JustPulled(t) => pushCount \notin InRing

\* a pull has taken out the node pushed last, of a negative priority, from a ring
\* that holds an earlier negative one and a non-negative one
C12_Witness ==
    \E t \in Threads :
        /\ JustPulled(t) /\ rec[t] = pushCount /\ pushed[pushCount] < 0 /\ ~crashed
        /\ buffer_occupancy <= max_buffer_size
        /\ \E m \in InRing : priority[m] < 0
        /\ \E m \in InRing : priority[m] >= 0

\* C13: once fifoBufferClose has returned, a call on the handle is refused: no thread
\* gets into a call, the process is not killed, and the ring, the counters, the mutex
\* and the conditions stay as they are.
C13_RefusedAfterClose ==
    [][closed => /\ \A t \in Threads : pc'[t] = "idle"
                 /\ crashed' = crashed
                 /\ UNCHANGED <<ring, max_buffer_size, buffer_occupancy, sync>>
      ]_vars

\* C14: fifoBufferInit refuses a capacity <= 0, so that no buffer with
\* max_buffer_size <= 0 exists.
C14_CapacityPositive ==
    max_buffer_size > 0

\* the places of fifoPush, fifoPull and fifoFlush between taking the mutex and
\* unlocking it
InSection(t) ==
    pc[t] \in {"push_check", "push_insert", "push_inc",
               "pull_check", "pull_remove", "pull_dec", "flush"}

\* C15: a thread is inside a section of fifoPush, fifoPull or fifoFlush that reads or
\* changes the ring exactly when it holds the mutex, so at most one thread is; and a
\* step that changes a link of the ring (insert, remove, drain and reset) is taken by
\* the thread that holds the mutex, from inside its section, while no other thread
\* moves except a waiter it signals.
C15_MutationUnderLock ==
    [][/\ \A t \in Threads : InSection(t)' <=> lock' = t
       /\ (next' # next \/ prev' # prev)
             => /\ lock \in Threads /\ InSection(lock) /\ pc'[lock] # pc[lock]
                /\ \A u \in Threads \ {lock} :
                      pc'[u] # pc[u] => pc[u] = "push_wait" /\ pc'[u] = "push_woken"
      ]_vars

\* a pull has unlinked a node, holding the mutex, while the other thread is inside a
\* call and waits for the mutex
C15_Witness ==
    \E t, u \in Threads :
        /\ JustPulled(t) /\ lock = t /\ ~crashed
        /\ u # t /\ pc[u] = "lock" /\ op[u] = "push"

\* C16: no thread is back with its caller while it owns the mutex: every return of
\* fifoPush, fifoPull and fifoFlush, the early ones of a non-blocking call and of a
\* failed condition wait included, has unlocked it.
C16_ReturnsUnlocked ==
    \A t \in Threads : pc[t] = "idle" => lock # t

\* the nodes reached from the sentinel by next, and by prev, in HeapSize steps at most
RECURSIVE Reach(_, _, _)
Reach(f, p, fuel) ==
    IF p = sentinel \/ p = NULL \/ fuel = 0 THEN {}
    ELSE {p} \cup Reach(f, f[p], fuel - 1)

\* C17: the sentinel is never unlinked and never handed out: it keeps a successor and
\* a predecessor, next and prev are inverse to each other on every linked node, both
\* lead round to the sentinel through the same nodes, no pull holds the sentinel as
\* the node to destroy, no flush would free it, and a pull whose removeNode met the
\* sentinel (it got NULL back) finds the sentinel linked as it was.
C17_RingWellFormed ==
    /\ next[sentinel] # NULL /\ prev[sentinel] # NULL
    /\ \A n \in InRing \cup {sentinel} :
          /\ next[n] \in Nodes /\ prev[n] \in Nodes
          /\ prev[next[n]] = n /\ next[prev[n]] = n
    /\ Reach(next, next[sentinel], HeapSize) = Reach(prev, prev[sentinel], HeapSize)
    /\ Len(fifoPrint) = Cardinality(InRing)
    /\ \A n \in NodeIds \ InRing : next[n] = NULL /\ prev[n] = NULL
    /\ sentinel \notin FlushLoop(Links, <<>>, {}).freed
    /\ \A t \in Threads :
          /\ rec[t] # sentinel
          /\ (pc[t] = "pull_dec" /\ rec[t] = NULL)
                => next[sentinel] = sentinel /\ prev[sentinel] = sentinel

\* a pull has called removeNode on the sentinel of an empty ring and got NULL
C17_Witness ==
    \E t \in Threads :
        /\ pc[t] = "pull_dec" /\ rec[t] = NULL /\ ~crashed
        /\ next[sentinel] = sentinel /\ prev[sentinel] = sentinel

\* the number of places payload k is in: linked in the ring, or held by a fifoPull
\* between removeNode and fifoNodeDestroy
Held(k) ==
    (IF k \in InRing /\ data[k] = k THEN 1 ELSE 0) + Cardinality({t \in Threads : rec[t] = k})

\* C18: no payload is lost, duplicated or invented.  A payload a push has linked is
\* in exactly one place: in the ring, with a pull that is about to return it, or
\* handed back once by a pull, a flush or a close; a payload no push has linked is
\* nowhere and was never handed back; and once the buffer is closed every payload
\* accepted has been handed back, once.
C18_PayloadsConserved ==
    /\ \A k \in NodeIds :
          IF k <= pushCount
          THEN Held(k) + returned[k] = 1
          ELSE Held(k) = 0 /\ returned[k] = 0
    /\ \A n \in InRing : data[n] = n
    /\ closed => \A k \in 1..pushCount : returned[k] = 1

\* the buffer is closed after three payloads were pushed and handed back: one in the
\* array of the close, one in the array of a flush of the other thread, and one
\* before them
C18_Witness ==
    /\ closed /\ ~crashed /\ pushCount = 3
    /\ \A k \in 1..pushCount : returned[k] = 1
    /\ \E t, u \in Threads :
          /\ t # u
          /\ Len(Payloads(out[t])) = 1
          /\ Len(Payloads(out[u])) = 1

\* C19: no producer stays suspended in a blocking push for ever while the buffer has
\* room: after a flush has emptied a full buffer on which producers wait, each of
\* them gets to insert (or finds the room taken) without a further pull or flush.
C19_NoLostWakeup ==
    \A t \in 1..(NumThreads + 1) :
        []<>~(pc[t] = "push_wait" /\ buffer_occupancy < max_buffer_size)

\* C20: fifoUpdateOccupancy may run beside push, pull and flush: the process is not
\* killed, and once it and the calls beside it have all returned, buffer_occupancy is
\* the number of nodes in the ring.
C20_RecountSafe ==
    /\ ~crashed
    /\ (\A t \in Threads : pc[t] = "idle") => fifoUpdateOccupancy = buffer_occupancy

====
